---- MODULE Spec2Model ----
(***************************************************************************)
(* Model of the VGA text-mode driver: src/src/color.rs (Color, ColorCode)  *)
(* and src/src/buffer.rs (Buffer, Writer, write_str).                      *)
(*                                                                         *)
(* The Buffer is a [[Volatile<Char>; BUFFER_LENGTH]; BUFFER_HEIGHT] array. *)
(* Indexing a Rust array out of range panics; the crate is no_std, so a    *)
(* panic never returns to the caller: the model records it in `panicked`   *)
(* and no operation runs afterwards.                                       *)
(***************************************************************************)
EXTENDS Integers, Sequences, FiniteSets, TLC

\* ---------------------------------------------------------------- constants
BUFFER_LENGTH == 80
BUFFER_HEIGHT == 24

\* Bytes used as inputs: b'\n', b' ', b'A', b'B'.
NL == 10
SP == 32
ByteA == 65
ByteB == 66

\* ---------------------------------------------------------------- bounds
\* Number of Writer operations in one run.
MaxOps == 3
\* Longest string of the exhaustive part of the write_str inputs.
MaxLen == 1
\* Number of execution contexts that may call print_message.
NumCtx == 2

\* ---------------------------------------------------------------- color.rs
\* enum Color: the 16 discriminants 0x0 .. 0xF.
Color == 0..15
Black == 0
Blue == 1
Green == 2
White == 15

\* a | b on unsigned integers, bit by bit.
RECURSIVE BitOr(_, _)
BitOr(a, b) ==
    IF a = 0 THEN b
    ELSE IF b = 0 THEN a
    ELSE (IF a % 2 = 1 \/ b % 2 = 1 THEN 1 ELSE 0) + 2 * BitOr(a \div 2, b \div 2)

\* x << 4 on a u8: the bits shifted past bit 7 are dropped.
Shl4(x) == (x * 16) % 256

\* ColorCode::new with the two arguments exchanged.
ColorCodeNew_swapped(fg, bg) ==
    BitOr(Shl4(fg), bg)

\* ColorCode::new: (background as u8) << 4 | (foreground as u8), a u8.
ColorCodeNew(fg, bg) ==
    BitOr(Shl4(bg), fg)

\* impl Default for ColorCode: green on black.
ColorCodeDefault == ColorCodeNew(Green, Black)

\* ---------------------------------------------------------------- buffer.rs
Rows == 0..(BUFFER_HEIGHT - 1)
Cols == 0..(BUFFER_LENGTH - 1)

\* What the memory at VGA_BUFFER_ADDRESS holds before the driver writes:
\* the code never reads it; a cell no write of the driver produces.
InitCell == <<0, 0>>

\* Color codes a Writer is constructed with (Writer::new takes any).
InitColors == {ColorCodeDefault, ColorCodeNew(White, Blue)}

VARIABLES
    content,          \* Buffer.content: [Rows -> [Cols -> Char]]
    color_code,       \* Writer.color_code
    column_position,  \* Writer.column_position
    row_position,     \* Writer.row_position
    panicked,         \* an index was out of range: the call panicked
    op,               \* the last operation called and its argument
    pre,              \* the cursor when the last operation was called
    issued,           \* the stores the last operation issued: <<row, col, Char>>
    processed,        \* bytes the last write_str handed to write_byte
    returned,         \* what the last operation returned: "unit", "Ok", or "none"
    ops,              \* number of operations called so far
    foreground,       \* ColorCode::new: the foreground argument
    background,       \* ColorCode::new: the background argument
    code,             \* ColorCode::new: the byte of the result, -1 before the call
    pc,               \* print_message: where each context is: "idle", "clear", "loop"
    stdout,           \* print_message: each context's local Writer (its color and cursor)
    iter,             \* print_message: each context's loop variable i
    handles,          \* handles to VGA_BUFFER_ADDRESS constructed so far
    lazy              \* BUF_WRITER has been initialised

vars == <<content, color_code, column_position, row_position, panicked,
          op, pre, issued, processed, returned, ops,
          foreground, background, code,
          pc, stdout, iter, handles, lazy>>

writerVars == <<content, color_code, column_position, row_position, panicked,
                op, pre, issued, processed, returned, ops>>
colorVars == <<foreground, background, code>>
printVars == <<pc, stdout, iter, handles, lazy>>

Ctx == 1..NumCtx

\* No context is in print_message and BUF_WRITER has not been touched.
NoPrint ==
    /\ pc = [c \in Ctx |-> "idle"]
    /\ stdout = [c \in Ctx |->
                   [color_code |-> ColorCodeDefault, column_position |-> 0,
                    row_position |-> 0]]
    /\ iter = [c \in Ctx |-> 0]
    /\ lazy = FALSE

\* The Writer and what it did, as one value the operations transform.
Self ==
    [content |-> content, color_code |-> color_code,
     column_position |-> column_position, row_position |-> row_position,
     panicked |-> panicked, issued |-> <<>>]

\* self.buffer().content[row][col].write(ch): the index is bounds-checked,
\* an index out of range panics and stores nothing.
BufferWrite(w, row, col, ch) ==
    IF row < BUFFER_HEIGHT /\ col < BUFFER_LENGTH
    THEN [w EXCEPT !.content[row][col] = ch,
                   !.issued = Append(@, <<row, col, ch>>)]
    ELSE [w EXCEPT !.panicked = TRUE,
                   !.issued = Append(@, <<row, col, ch>>)]

\* Writer::clear: every cell becomes (b' ', color_code); the cursor is not
\* touched.
clear(w) ==
    [w EXCEPT !.content = [row \in Rows |-> [col \in Cols |-> <<SP, w.color_code>>]],
              !.issued = [i \in 1..(BUFFER_HEIGHT * BUFFER_LENGTH) |->
                            <<(i - 1) \div BUFFER_LENGTH, (i - 1) % BUFFER_LENGTH,
                              <<SP, w.color_code>>>>]]

\* Writer::new_line
new_line(w) ==
    [w EXCEPT !.row_position = IF w.row_position < BUFFER_HEIGHT THEN @ + 1 ELSE @,
              !.column_position = 0]

\* write_byte with the wrap test one column early.
write_byte_wraps_early(w, byte) ==
    LET row == w.row_position
        col == w.column_position
        color == w.color_code
    IN  IF byte = NL
        THEN new_line(w)
        ELSE LET w1 == IF w.column_position >= BUFFER_LENGTH - 1 THEN new_line(w) ELSE w
                 w2 == BufferWrite(w1, row, col, <<byte, color>>)
             IN  IF w2.panicked
                 THEN w2
                 ELSE [w2 EXCEPT !.column_position = @ + 1]

\* Writer::write_byte: row and col are read before the match, and the store
\* uses them even when new_line has moved the cursor.
write_byte(w, byte) ==
    LET row == w.row_position
        col == w.column_position
        color == w.color_code
    IN  IF byte = NL
        THEN new_line(w)
        ELSE LET w1 == IF w.column_position >= BUFFER_LENGTH THEN new_line(w) ELSE w
                 w2 == BufferWrite(w1, row, col, <<byte, color>>)
             IN  IF w2.panicked
                 THEN w2
                 ELSE [w2 EXCEPT !.column_position = @ + 1]

\* <Writer as fmt::Write>::write_str: the bytes of the string in order
\* through write_byte; a panic in write_byte ends the loop.
RECURSIVE write_str_from(_, _, _)
write_str_from(w, string, i) ==
    IF i > Len(string) \/ w.panicked
    THEN [w |-> w, n |-> i - 1]
    ELSE write_str_from(write_byte(w, string[i]), string, i + 1)

\* write_str that stops one byte short of the end of the string.
write_str_skips_last(w, string) ==
    write_str_from(w, SubSeq(string, 1, Len(string) - 1), 1)

write_str(w, string) == write_str_from(w, string, 1)

\* ---------------------------------------------------------------- inputs
Repeat(byte, n) == [i \in 1..n |-> byte]

Alphabet == {ByteA, ByteB, NL}

RECURSIVE StringsOfLen(_)
StringsOfLen(n) ==
    IF n = 0 THEN {<<>>}
    ELSE {Append(s, b) : s \in StringsOfLen(n - 1), b \in Alphabet}

\* n distinct printable bytes in ascending order: b'!', b'"', b'#', ...
Ramp(n) == [i \in 1..n |-> SP + i]

\* "Hello, world!"
HelloWorld == <<72, 101, 108, 108, 111, 44, 32, 119, 111, 114, 108, 100, 33>>

Strings ==
    UNION {StringsOfLen(n) : n \in 0..MaxLen}
    \cup {HelloWorld,
          Repeat(ByteA, BUFFER_LENGTH),
          Ramp(BUFFER_LENGTH),
          Repeat(ByteA, BUFFER_LENGTH + 5),
          Repeat(NL, BUFFER_HEIGHT - 1)}

\* ---------------------------------------------------------------- machine
\* Writer::new(buffer, color_code, 0, 0) over the memory at VGA_BUFFER_ADDRESS.
Init ==
    /\ content = [row \in Rows |-> [col \in Cols |-> InitCell]]
    /\ color_code \in InitColors
    /\ column_position = 0
    /\ row_position = 0
    /\ panicked = FALSE
    /\ op = [name |-> "new"]
    /\ pre = [row |-> 0, col |-> 0]
    /\ issued = <<>>
    /\ processed = 0
    /\ returned = "unit"
    /\ ops = 0
    /\ foreground = Green
    /\ background = Black
    /\ code = -1
    /\ NoPrint
    /\ handles = 1

\* A call is made only while the program runs and within the run's length.
CanCall == ~panicked /\ ops < MaxOps

\* The state after a call that left the Writer as w; ret is the value the call
\* returns when it returns, and a call that panicked returns nothing.
Become(w, name, n, ret) ==
    /\ content' = w.content
    /\ color_code' = w.color_code
    /\ column_position' = w.column_position
    /\ row_position' = w.row_position
    /\ panicked' = w.panicked
    /\ issued' = w.issued
    /\ processed' = n
    /\ returned' = IF w.panicked THEN "none" ELSE ret
    /\ pre' = [row |-> row_position, col |-> column_position]
    /\ op' = name
    /\ ops' = ops + 1
    /\ UNCHANGED colorVars
    /\ UNCHANGED printVars

WriteByte ==
    /\ CanCall
    /\ \E byte \in Alphabet :
          Become(write_byte(Self, byte), [name |-> "write_byte", byte |-> byte], 0, "unit")

NewLine ==
    /\ CanCall
    /\ Become(new_line(Self), [name |-> "new_line"], 0, "unit")

Clear ==
    /\ CanCall
    /\ Become(clear(Self), [name |-> "clear"], 0, "unit")

WriteStr ==
    /\ CanCall
    /\ \E string \in Strings :
          LET r == write_str(Self, string)
          IN  Become(r.w, [name |-> "write_str", string |-> string], r.n, "Ok")

Next == WriteByte \/ NewLine \/ Clear \/ WriteStr

Spec == Init /\ [][Next]_vars

\* ---------------------------------------------------------------- ColorCode::new
\* A (foreground, background) pair of Color variants, ColorCode::new not yet
\* called on it; no Writer operation takes part.
InitColor ==
    /\ foreground \in Color
    /\ background \in Color
    /\ code = -1
    /\ content = [row \in Rows |-> [col \in Cols |-> InitCell]]
    /\ color_code = ColorCodeDefault
    /\ column_position = 0
    /\ row_position = 0
    /\ panicked = FALSE
    /\ op = [name |-> "new"]
    /\ pre = [row |-> 0, col |-> 0]
    /\ issued = <<>>
    /\ processed = 0
    /\ returned = "unit"
    /\ ops = 0
    /\ NoPrint
    /\ handles = 0

\* ColorCode::new(foreground, background)
NewColorCode ==
    /\ code = -1
    /\ code' = ColorCodeNew(foreground, background)
    /\ UNCHANGED <<foreground, background>>
    /\ UNCHANGED writerVars
    /\ UNCHANGED printVars

NextColor == NewColorCode

SpecColor == InitColor /\ [][NextColor]_vars

\* ---------------------------------------------------------------- print_message
\* for i in 0..100
Iterations == 100

\* format_args!("Hello {}\n", "world!"): write_fmt hands the Writer the
\* literal pieces and the argument in order, "Hello ", "world!", "\n".
EchoPieces ==
    << <<72, 101, 108, 108, 111, 32>>,
       <<119, 111, 114, 108, 100, 33>>,
       <<NL>> >>

\* fmt::Write::write_fmt: write_str for each piece in turn; write_str never
\* returns Err, so only a panic ends it early.
RECURSIVE write_fmt_from(_, _, _)
write_fmt_from(w, pieces, i) ==
    IF i > Len(pieces) \/ w.panicked
    THEN w
    ELSE write_fmt_from(write_str(w, pieces[i]).w, pieces, i + 1)

write_fmt(w, pieces) == write_fmt_from(w, pieces, 1)

\* The local Writer `stdout` of context c over the shared Buffer.
Local(c) ==
    [content |-> content, color_code |-> stdout[c].color_code,
     column_position |-> stdout[c].column_position,
     row_position |-> stdout[c].row_position,
     panicked |-> panicked, issued |-> <<>>]

\* The program start: nothing constructed, the memory as the hardware left it.
InitPrint ==
    /\ content = [row \in Rows |-> [col \in Cols |-> InitCell]]
    /\ color_code = ColorCodeDefault
    /\ column_position = 0
    /\ row_position = 0
    /\ panicked = FALSE
    /\ op = [name |-> "start"]
    /\ pre = [row |-> 0, col |-> 0]
    /\ issued = <<>>
    /\ processed = 0
    /\ returned = "unit"
    /\ ops = 0
    /\ foreground = Green
    /\ background = Black
    /\ code = -1
    /\ NoPrint
    /\ handles = 0

\* What a step of context c leaves of the shared state and of its Writer.
Stepped(c, w, name) ==
    /\ content' = w.content
    /\ panicked' = w.panicked
    /\ issued' = w.issued
    /\ stdout' = [stdout EXCEPT ![c] =
                    [color_code |-> w.color_code,
                     column_position |-> w.column_position,
                     row_position |-> w.row_position]]
    /\ op' = [name |-> name, ctx |-> c]
    /\ UNCHANGED <<color_code, column_position, row_position,
                   pre, processed, returned, ops>>
    /\ UNCHANGED colorVars

\* The first dereference of BUF_WRITER: lazy_static runs the initialiser,
\* Unique::new_unchecked(VGA_BUFFER_ADDRESS), once. The static is immutable
\* and every Writer method takes &mut self, so nothing else can be done
\* through it.
DerefBufWriter ==
    /\ ~panicked
    /\ ~lazy
    /\ lazy' = TRUE
    /\ handles' = handles + 1
    /\ op' = [name |-> "BUF_WRITER"]
    /\ issued' = <<>>
    /\ UNCHANGED <<content, color_code, column_position, row_position, panicked,
                   pre, processed, returned, ops, pc, stdout, iter>>
    /\ UNCHANGED colorVars

\* print_message, lines 141-146: Writer::new over a new handle to the address;
\* no lock is taken.
CallPrintMessage ==
    \E c \in Ctx :
        /\ ~panicked
        /\ pc[c] = "idle"
        /\ pc' = [pc EXCEPT ![c] = "clear"]
        /\ handles' = handles + 1
        /\ iter' = [iter EXCEPT ![c] = 0]
        /\ Stepped(c, [Local(c) EXCEPT !.color_code = ColorCodeDefault,
                                       !.column_position = 0,
                                       !.row_position = 0], "Writer::new")
        /\ UNCHANGED lazy

\* print_message, line 147: stdout.clear()
PrintClear ==
    \E c \in Ctx :
        /\ ~panicked
        /\ pc[c] = "clear"
        /\ pc' = [pc EXCEPT ![c] = "loop"]
        /\ Stepped(c, clear(Local(c)), "clear")
        /\ UNCHANGED <<iter, handles, lazy>>

\* print_message, lines 148-151: one turn of the for loop, echo!(stdout, ...),
\* or the return once i has reached 100.
PrintLoop ==
    \E c \in Ctx :
        /\ ~panicked
        /\ pc[c] = "loop"
        /\ IF iter[c] < Iterations
           THEN /\ Stepped(c, write_fmt(Local(c), EchoPieces), "echo")
                /\ iter' = [iter EXCEPT ![c] =
                              IF write_fmt(Local(c), EchoPieces).panicked
                              THEN @ ELSE @ + 1]
                /\ UNCHANGED pc
           ELSE /\ Stepped(c, Local(c), "return")
                /\ pc' = [pc EXCEPT ![c] = "idle"]
                /\ UNCHANGED iter
        /\ UNCHANGED <<handles, lazy>>

NextPrint == DerefBufWriter \/ CallPrintMessage \/ PrintClear \/ PrintLoop

SpecPrint == InitPrint /\ [][NextPrint]_vars

\* ---------------------------------------------------------------- claims
NoNewline(string) == \A i \in 1..Len(string) : string[i] # NL

\* C1: every cell store a Writer operation issues uses an index with
\* row < BUFFER_HEIGHT and col < BUFFER_LENGTH.
C1_StoresInRange ==
    \A i \in 1..Len(issued) :
        issued[i][1] < BUFFER_HEIGHT /\ issued[i][2] < BUFFER_LENGTH

\* C2: in every reachable state 0 <= row_position < BUFFER_HEIGHT and
\* 0 <= column_position <= BUFFER_LENGTH.
C2_CursorInRange ==
    /\ row_position \in 0..(BUFFER_HEIGHT - 1)
    /\ column_position \in 0..BUFFER_LENGTH

\* C3: write_byte of a non-newline byte at column BUFFER_LENGTH performs
\* new_line, then stores the byte once, with the current color, at column 0 of
\* the row new_line produced, changes no other cell and leaves column 1.
C3_ForcedWrap ==
    [][(/\ op'.name = "write_byte"
        /\ op'.byte # NL
        /\ column_position = BUFFER_LENGTH)
       => (/\ ~panicked'
           /\ row_position' = new_line(Self).row_position
           /\ column_position' = 1
           /\ issued' = <<<<row_position', 0, <<op'.byte, color_code>>>>>>
           /\ content' = [content EXCEPT
                            ![row_position'][0] = <<op'.byte, color_code>>])]_vars

\* C4: new_line at the last valid row (BUFFER_HEIGHT - 1) leaves the row at
\* BUFFER_HEIGHT - 1 (clamp) or 0 (wrap) and the column at 0.
C4_RowAdvanceAtBottom ==
    [][(/\ op'.name = "new_line"
        /\ row_position = BUFFER_HEIGHT - 1)
       => (/\ row_position' \in {BUFFER_HEIGHT - 1, 0}
           /\ column_position' = 0)]_vars

\* C5: write_byte of the newline byte stores no cell: the grid and the color
\* are unchanged, the column becomes 0, and the row advances per the row
\* policy: by one below the last row, to the last row or row 0 from the last.
C5_NewlineWritesNoCell ==
    [][(/\ op'.name = "write_byte"
        /\ op'.byte = NL)
       => (/\ content' = content
           /\ issued' = <<>>
           /\ color_code' = color_code
           /\ column_position' = 0
           /\ (row_position < BUFFER_HEIGHT - 1 => row_position' = row_position + 1)
           /\ (row_position = BUFFER_HEIGHT - 1
                 => row_position' \in {BUFFER_HEIGHT - 1, 0}))]_vars

\* C6: after clear every cell holds (space, the Writer's color) and the
\* cursor is at (0, 0).
C6_ClearResets ==
    op.name = "clear"
    => (/\ \A row \in Rows : \A col \in Cols : content[row][col] = <<SP, color_code>>
        /\ row_position = 0
        /\ column_position = 0)

\* C7: write_str of a newline-free string of length BUFFER_LENGTH at column 0
\* of a valid row stores its bytes in order, with the Writer's color, into
\* columns 0 .. BUFFER_LENGTH - 1 of that row and nowhere else, and leaves the
\* cursor at (row, BUFFER_LENGTH) without a wrap.
C7_FullRow ==
    [][(/\ op'.name = "write_str"
        /\ NoNewline(op'.string)
        /\ Len(op'.string) = BUFFER_LENGTH
        /\ column_position = 0
        /\ row_position < BUFFER_HEIGHT)
       => (/\ ~panicked'
           /\ content' = [content EXCEPT ![row_position] =
                            [col \in Cols |-> <<op'.string[col + 1], color_code>>]]
           /\ issued' = [i \in 1..BUFFER_LENGTH |->
                            <<row_position, i - 1, <<op'.string[i], color_code>>>>]
           /\ row_position' = row_position
           /\ column_position' = BUFFER_LENGTH)]_vars

\* A full row of distinct bytes has been written on a row below the first.
C7_Witness ==
    /\ op.name = "write_str"
    /\ op.string = Ramp(BUFFER_LENGTH)
    /\ pre.col = 0
    /\ pre.row \in 1..(BUFFER_HEIGHT - 1)
    /\ column_position = BUFFER_LENGTH
    /\ row_position = pre.row
    /\ content[pre.row][0] = <<SP + 1, color_code>>
    /\ content[pre.row][BUFFER_LENGTH - 1] = <<SP + BUFFER_LENGTH, color_code>>

C9_OverflowLine ==
    [][(/\ op.name = "clear"
        /\ pre = [row |-> 0, col |-> 0]
        /\ op'.name = "write_str"
        /\ op'.string = Repeat(ByteA, BUFFER_LENGTH + 5))
       => (/\ ~panicked'
           /\ content' = [content EXCEPT
                  ![0] = [col \in Cols |-> <<ByteA, color_code>>],
                  ![1] = [col \in Cols |-> IF col < 5 THEN <<ByteA, color_code>>
                                           ELSE content[1][col]]]
           /\ row_position' = 1
           /\ column_position' = 5
           /\ Len(issued') = BUFFER_LENGTH + 5
           /\ \A i \in 1..Len(issued') : issued'[i][3] = <<ByteA, color_code>>)]_vars

\* C10: write_str hands every byte of the string to write_byte, in order,
\* and returns Ok: it never stops part-way through the string.
C10_WriteStrTotal ==
    op.name = "write_str"
    => (/\ ~panicked
        /\ processed = Len(op.string)
        /\ returned = "Ok")

\* C12: for each of the 16 x 16 Color pairs ColorCode::new(fg, bg) is the byte
\* (bg << 4) | fg = 16 * bg + fg: it fits in 8 bits, its high nibble is bg and
\* its low nibble fg, and no other pair gives the same byte.
C12_ColorCodePacking ==
    code # -1
    => (/\ code = 16 * background + foreground
        /\ code \in 0..255
        /\ code \div 16 = background
        /\ code % 16 = foreground
        /\ \A fg \in Color : \A bg \in Color :
              ColorCodeNew(fg, bg) = code => (fg = foreground /\ bg = background))

\* ColorCode::new has packed a pair whose nibbles differ and whose background
\* has its top bit set.
C12_Witness ==
    /\ foreground = Green
    /\ background = White
    /\ code = 242

\* C11: the public entry points are serialised behind mutual exclusion: when
\* a context stores cells, no other context is part-way through the stores
\* of its own print_message call (past its clear, with writes still to come).
C11_MutualExclusion ==
    [][\A c \in Ctx :
          (/\ op'.name \in {"clear", "echo"}
           /\ op'.ctx = c
           /\ issued' # <<>>)
          => \A d \in Ctx \ {c} : pc[d] # "loop"]_vars

\* C13: at most one handle to VGA_BUFFER_ADDRESS is ever constructed, however
\* BUF_WRITER is used and however often print_message is called.
C13_SingleHandle ==
    handles <= 1

\* C14: a print_message call running alone (the only handle, the only call)
\* never aborts and every store it issues is in range, so its loop performs
\* all 100 writes and reaches the return.
C14_PrintMessageCompletes ==
    (handles = 1 /\ ~lazy)
    => (/\ ~panicked
        /\ \A i \in 1..Len(issued) :
              issued[i][1] < BUFFER_HEIGHT /\ issued[i][2] < BUFFER_LENGTH)

\* C15: write_byte of a non-newline byte stores exactly one cell, (byte,
\* color_code), changes no other cell and leaves the column one past the
\* column it stored at; and no operation changes color_code.
C15_WriteByteFrame ==
    [][/\ color_code' = color_code
       /\ (op'.name = "write_byte" /\ op'.byte # NL)
          => (/\ ~panicked'
              /\ Len(issued') = 1
              /\ issued'[1][3] = <<op'.byte, color_code>>
              /\ content' = [content EXCEPT
                               ![issued'[1][1]][issued'[1][2]] = issued'[1][3]]
              /\ column_position' = issued'[1][2] + 1)]_vars
====
